---- MODULE Spec2Model ----
(***************************************************************************)
(* Claim allocation and ledger engine of the task marketplace              *)
(* (core/views.py, core/views_wallet.py, core/views_admin_milestones.py,   *)
(* core/views_cron.py, core/models.py).                                    *)
(*                                                                         *)
(* Store semantics.  settings.py configures django.db.backends.sqlite3.    *)
(* On that backend select_for_update() takes no row lock (it is ignored),  *)
(* every statement outside transaction.atomic() commits on its own, and a  *)
(* transaction.atomic() block is serializable: it either commits as one    *)
(* step or fails with "database is locked" and leaves nothing behind.      *)
(* The model therefore has one action per atomic block and one action per  *)
(* group of reads that a handler makes before its atomic block; the        *)
(* values a handler carries from its reads into its block are kept in the  *)
(* bag `inflight`.                                                         *)
(***************************************************************************)
EXTENDS Integers, Sequences, FiniteSets, Bags, TLC

VARIABLES
    now,            \* timezone.now(), in minutes
    works,          \* Work rows: id -> [exists, total_slots, remaining_slots]
    items,          \* FileItem rows of the one FileBatch: id -> used_count
    claims,         \* WorkClaim rows: (user, work) -> the rows of that pair, in id order;
                    \* metrics_log is the number of ClaimMetricsLog rows of the claim
    inflight,       \* requests that have done their reads and not yet their atomic block
    wallets,        \* Wallet rows: user -> balance
    transactions,   \* WalletTransaction rows: user -> the bag of wallet.transactions
    withdrawals,    \* WithdrawalRequest rows: user -> wallet.withdrawals, in id order
    payouts,        \* MilestonePayout rows: id -> row
    min_withdraw_amount  \* SiteSettings.min_withdraw_amount

vars == <<now, works, items, claims, inflight, wallets, transactions,
          withdrawals, payouts, min_withdraw_amount>>

allocVars == <<now, works, items, claims>>
ledgerVars == <<wallets, transactions, withdrawals, payouts, min_withdraw_amount>>

(***************************************************************************)
(* Bounds of the model.                                                    *)
(***************************************************************************)
MaxTime == 60          \* the clock stops here
TickStep == 60         \* minutes between two observations of the clock
MaxInflight == 2       \* requests between their reads and their atomic block
MaxWithdrawals == 2    \* withdrawal requests per wallet

Users == {1, 2}
Works == {1, 2}
Items == DOMAIN items  \* the FileItem rows
BatchItems == {1}      \* the items GenerateAndSaveFileView created for the batch
OtherBatchItems == {2} \* the items of another file, which no offer is made from
TotalWorks == {1, 2}   \* total_works values an admin enters
Amounts == {1, 2}      \* amounts a user asks to withdraw
ViewsReported == {15}          \* view count the metrics provider reports (ledger side)
OtherPayouts == {0, 8}         \* payouts of other claims created between two of ours
PayoutAmounts == {0, 1}        \* payout amounts an admin enters on the claim screen

(***************************************************************************)
(* Program constants.                                                      *)
(***************************************************************************)
reuse_limit == 2           \* FileItem.reuse_limit default; items are only bulk-created
deadline_minutes == 60     \* Work.deadline_minutes default and the lower clamp
METRICS_COOLDOWN == 7200   \* METRICS_COOLDOWN_DAYS = 5, in minutes

\* MilestoneRule rows an admin defined
MilestoneRules == <<[active |-> TRUE, threshold_views |-> 10, payout_amount |-> 1],
                    [active |-> TRUE, threshold_views |-> 20, payout_amount |-> 2]>>

\* price_per_item an admin enters for each offer
price_per_item == [w \in Works |-> IF w = 1 THEN 2 ELSE 0]

\* The FileItem rows when every item of the batch has been used n times.
FileItems(n) ==
    [i \in BatchItems \cup OtherBatchItems |-> IF i \in BatchItems THEN n ELSE 0]

Null == -1   \* a NULL timestamp
NoWork == [exists |-> FALSE, total_slots |-> 0, remaining_slots |-> 0]
NoRow == <<>>

\* A request in flight: the handler's local values after its reads.
\* `row` names the row the handler read, `seen` a value it read from that row.
Req(op, user, work, row, t, amount, seen) ==
    [op |-> op, user |-> user, work |-> work, row |-> row, t |-> t,
     amount |-> amount, seen |-> seen]

Launch(r) == inflight (+) SetToBag({r})
Finish(r) == inflight (-) SetToBag({r})
CanLaunch == BagCardinality(inflight) < MaxInflight

\* A claim row is named by its (user, work) pair and its position among the
\* rows of that pair; the uniqueness constraint is what keeps that position 1.
ClaimIds == {<<u, w, k>> \in Users \X Works \X (1..(MaxInflight + 1)) :
                k <= Len(claims[u, w])}
Claim(c) == claims[c[1], c[2]][c[3]]

\* A transaction that loses the write lock of the store fails with
\* "database is locked": the request ends and nothing of it is kept.
DatabaseLocked(r) ==
    /\ BagIn(r, inflight)
    /\ inflight' = Finish(r)
    /\ UNCHANGED <<now, works, items, claims, wallets, transactions, withdrawals,
                   payouts, min_withdraw_amount>>

(***************************************************************************)
(* WorkCreateFromFileView.post                                             *)
(***************************************************************************)
RECURSIVE SumOver(_, _)
SumOver(S, f) ==
    IF S = {} THEN 0
    ELSE LET x == CHOOSE y \in S : TRUE IN f[x] + SumOver(S \ {x}, f)

Max(a, b) == IF a >= b THEN a ELSE b

\* fb.items and w.file_batch.items: the FileItem rows of the batch.
file_batch_items == {i \in Items : i \in BatchItems}

remaining_capacity ==
    SumOver(file_batch_items,
            [i \in file_batch_items |-> Max(0, reuse_limit - items[i])])

WorkCreateFromFile(w, total_works) ==
    /\ ~works[w].exists
    /\ total_works <= remaining_capacity
    /\ works' = [works EXCEPT ![w] = [exists |-> TRUE, total_slots |-> total_works,
                                      remaining_slots |-> total_works]]
    /\ UNCHANGED <<now, items, claims, inflight, ledgerVars>>

(***************************************************************************)
(* WorkClaimCreateView.post                                                *)
(***************************************************************************)
existing_active(u, t) ==
    \E c \in ClaimIds : /\ Claim(c).user = u
                        /\ Claim(c).status = "claimed"
                        /\ Claim(c).expires_at > t

already_participated(u, w) ==
    \E c \in ClaimIds : Claim(c).user = u /\ Claim(c).work = w

\* Lines 221-251: the reads made in autocommit mode, before the transaction.
ClaimCheck(u, w) ==
    /\ CanLaunch
    /\ ~existing_active(u, now)
    /\ ~already_participated(u, w)
    /\ works[w].exists
    /\ inflight' = Launch(Req("claim", u, w, NoRow, now + deadline_minutes, 0, ""))
    /\ UNCHANGED <<allocVars, ledgerVars>>

\* The candidate query without its used_count < reuse_limit filter.
candidate_ids_unfiltered == Items

\* The candidate query over the items of every file.
candidate_ids_any_batch == {i \in Items : items[i] < reuse_limit}

\* Lines 259-261: w.file_batch.items.filter(used_count__lt=F("reuse_limit"))
candidate_ids == {i \in file_batch_items : items[i] < reuse_limit}

\* The claim table without its uniqueness constraint.
uniq_user_work_absent(u, w) == TRUE

\* models.UniqueConstraint(fields=["user", "work"]): the insert is refused.
uniq_user_work(u, w) == ~already_participated(u, w)

\* The sold-out test that never refuses.
sold_out_never(w) == FALSE

\* Line 258: if w.remaining_slots <= 0
sold_out(w) == works[w].remaining_slots <= 0

\* A block that keeps the writes made before the statement that failed.
transaction_not_atomic(before, partial, done, ok) == IF ok THEN done ELSE partial

\* with transaction.atomic(): the block commits all its writes, or, when a
\* statement raises, none of them.
transaction_atomic(before, partial, done, ok) == IF ok THEN done ELSE before

\* Lines 270-271: used_count + 1 and remaining_slots - 1.
counters_written(r, chosen_id) ==
    [items |-> [items EXCEPT ![chosen_id] = @ + 1],
     works |-> [works EXCEPT ![r.work].remaining_slots = @ - 1],
     claims |-> claims]

\* Lines 273-283: WorkClaim.objects.create after the counters.
claim_written(r, chosen_id) ==
    [counters_written(r, chosen_id) EXCEPT
        !.claims = [claims EXCEPT ![r.user, r.work] = Append(@,
                     [user |-> r.user, work |-> r.work, file_item |-> chosen_id,
                      status |-> "claimed", review_status |-> "pending_review",
                      payout_amount |-> price_per_item[r.work],
                      expires_at |-> r.t, youtube_url |-> FALSE,
                      youtube_video_id |-> FALSE, yt_views |-> 0,
                      next_check_at |-> Null, metrics_log |-> 0])]]

\* Lines 253-283: the transaction.  A request refused as sold out or for want
\* of an item has written nothing; an insert refused by the uniqueness
\* constraint (IntegrityError) comes after the counters were written.
ClaimTxn(r) ==
    /\ BagIn(r, inflight) /\ r.op = "claim"
    /\ inflight' = Finish(r)
    /\ UNCHANGED <<now, ledgerVars>>
    /\ IF sold_out(r.work) \/ candidate_ids = {}
       THEN UNCHANGED <<works, items, claims>>
       ELSE \E chosen_id \in candidate_ids :
              LET res == transaction_atomic(
                             [items |-> items, works |-> works, claims |-> claims],
                             counters_written(r, chosen_id),
                             claim_written(r, chosen_id),
                             uniq_user_work(r.user, r.work))
              IN /\ items' = res.items
                 /\ works' = res.works
                 /\ claims' = res.claims

(***************************************************************************)
(* WorkClaimSubmitView.post                                                *)
(***************************************************************************)
\* Lines 343-349: the claim row is read (no lock is taken) and its status checked.
SubmitRead(c, u) ==
    /\ CanLaunch
    /\ c \in ClaimIds
    /\ Claim(c).user = u
    /\ Claim(c).status \in {"claimed", "submitted"}
    /\ inflight' = Launch(Req("submit", u, Claim(c).work, c, 0, 0, ""))
    /\ UNCHANGED <<allocVars, ledgerVars>>

\* Lines 351-355: save(update_fields=["youtube_url", "submitted_at", "status"]).
SubmitTxn(r) ==
    /\ BagIn(r, inflight) /\ r.op = "submit"
    /\ inflight' = Finish(r)
    /\ claims' = [claims EXCEPT
           ![r.row[1], r.row[2]][r.row[3]].status = "submitted",
           ![r.row[1], r.row[2]][r.row[3]].youtube_url = TRUE]
    /\ UNCHANGED <<now, works, items, ledgerVars>>

(***************************************************************************)
(* WorkSweepExpireView.post                                                *)
(***************************************************************************)
\* The sweep query without its status filter.
to_expire_any_status(w, t) ==
    {c \in ClaimIds : Claim(c).work = w /\ Claim(c).expires_at <= t}

\* The sweep query without its deadline filter.
to_expire_no_deadline(w, t) ==
    {c \in ClaimIds : Claim(c).work = w /\ Claim(c).status = "claimed"}

\* Lines 375-379: the claimed rows of the offer whose deadline has passed.
to_expire(w, t) ==
    {c \in ClaimIds : /\ Claim(c).work = w
                      /\ Claim(c).status = "claimed"
                      /\ Claim(c).expires_at <= t}

\* The loop body that gives the slot back and keeps the use of the item.
expire_one_keeps_item(acc, c) ==
    [acc EXCEPT !.remaining_slots = @ + 1, !.expired = @ \cup {c}, !.count = @ + 1]

\* Lines 382-386, one pass of the loop: used_count - 1, remaining_slots + 1,
\* the claim is set to expired, count + 1.
expire_one(acc, c) ==
    [acc EXCEPT !.items[Claim(c).file_item] = @ - 1,
                !.remaining_slots = @ + 1,
                !.expired = @ \cup {c},
                !.count = @ + 1]

RECURSIVE expire_all(_, _)
\* Lines 380-386: the loop over the rows of to_expire.
expire_all(acc, S) ==
    IF S = {} THEN acc
    ELSE LET c == CHOOSE x \in S : TRUE IN expire_all(expire_one(acc, c), S \ {c})

\* What the transaction of lines 373-386 computes for offer w with the clock
\* reading t; count is the "expired" number of the response.
sweep(w, t) ==
    expire_all([items |-> items, remaining_slots |-> works[w].remaining_slots,
                expired |-> {}, count |-> 0],
               to_expire(w, t))

\* The save of line 385 that stores nothing.
mark_expired_not_saved(row) == row

\* Lines 384-385: c.status = "expired"; c.save(update_fields=["status"]).
mark_expired(row) == [row EXCEPT !.status = "expired"]

\* The clock is read at line 372, before the transaction of lines 373-386
\* starts: t is any reading not later than the current time.
SweepExpire(w, t) ==
    /\ works[w].exists
    /\ t <= now
    /\ UNCHANGED <<now, inflight, ledgerVars>>
    /\ IF to_expire(w, t) = {}
       THEN \* the loop of lines 380-386 has no row to visit: nothing is written
            UNCHANGED <<works, items, claims>>
       ELSE LET res == sweep(w, t) IN
              /\ items' = res.items
              /\ works' = [works EXCEPT ![w].remaining_slots = res.remaining_slots]
              /\ claims' = [p \in Users \X Works |->
                     [k \in 1..Len(claims[p]) |->
                         IF <<p[1], p[2], k>> \in res.expired
                         THEN mark_expired(claims[p][k])
                         ELSE claims[p][k]]]

(***************************************************************************)
(* The clock.                                                              *)
(***************************************************************************)
Tick ==
    /\ now + TickStep <= MaxTime
    /\ now' = now + TickStep
    /\ UNCHANGED <<works, items, claims, inflight, ledgerVars>>

(***************************************************************************)
(* Allocation side: offers, claims, submissions and the expiry sweep.      *)
(***************************************************************************)
Times == {t \in 0..MaxTime : t % TickStep = 0}

Init ==
    /\ now = 0
    /\ works = [w \in Works |-> NoWork]
    /\ items = FileItems(0)
    /\ claims = [p \in Users \X Works |-> <<>>]
    /\ inflight = EmptyBag
    /\ wallets = [u \in Users |-> 0]
    /\ transactions = [u \in Users |-> EmptyBag]
    /\ withdrawals = [u \in Users |-> <<>>]
    /\ payouts = <<>>
    /\ min_withdraw_amount = 0

Next ==
    \/ \E w \in Works, n \in TotalWorks : WorkCreateFromFile(w, n)
    \/ \E u \in Users, w \in Works : ClaimCheck(u, w)
    \/ \E r \in BagToSet(inflight) : ClaimTxn(r)
    \/ \E c \in ClaimIds, u \in Users : SubmitRead(c, u)
    \/ \E r \in BagToSet(inflight) : SubmitTxn(r)
    \/ \E w \in Works, t \in Times : SweepExpire(w, t)
    \/ \E r \in BagToSet(inflight) : DatabaseLocked(r)
    \/ Tick

Spec == Init /\ [][Next]_vars

(***************************************************************************)
(* Two offers: allocation, submission and the sweep, started from the      *)
(* state of the allocation side in which a two-slot offer and a one-slot   *)
(* offer exist on the batch.                                               *)
(***************************************************************************)
OfferRows ==
    [w \in Works |-> [exists |-> TRUE, total_slots |-> IF w = 1 THEN 2 ELSE 1,
                      remaining_slots |-> IF w = 1 THEN 2 ELSE 1]]

OffersInit ==
    /\ now = 0
    /\ works = OfferRows
    /\ items = FileItems(0)
    /\ claims = [p \in Users \X Works |-> <<>>]
    /\ inflight = EmptyBag
    /\ wallets = [u \in Users |-> 0]
    /\ transactions = [u \in Users |-> EmptyBag]
    /\ withdrawals = [u \in Users |-> <<>>]
    /\ payouts = <<>>
    /\ min_withdraw_amount = 0

OffersNext ==
    \/ \E u \in Users, w \in Works : ClaimCheck(u, w)
    \/ \E r \in BagToSet(inflight) : ClaimTxn(r)
    \/ \E c \in ClaimIds, u \in Users : SubmitRead(c, u)
    \/ \E r \in BagToSet(inflight) : SubmitTxn(r)
    \/ \E w \in Works, t \in Times : SweepExpire(w, t)
    \/ \E r \in BagToSet(inflight) : DatabaseLocked(r)
    \/ Tick

SpecOffers == OffersInit /\ [][OffersNext]_vars

\* One invocation of the sweep on offer w that finds a claim to expire.
Sweep(w) == \E t \in Times : SweepExpire(w, t)

\* The state of the allocation side in which the two-slot offer exists alone.
SweepInit ==
    /\ now = 0
    /\ works = [OfferRows EXCEPT ![2] = NoWork]
    /\ items = FileItems(0)
    /\ claims = [p \in Users \X Works |-> <<>>]
    /\ inflight = EmptyBag
    /\ wallets = [u \in Users |-> 0]
    /\ transactions = [u \in Users |-> EmptyBag]
    /\ withdrawals = [u \in Users |-> <<>>]
    /\ payouts = <<>>
    /\ min_withdraw_amount = 0

\* Allocation, submission and the sweep on that offer, with the sweep of the
\* offer invoked again and again: an invocation that has something to expire
\* is not put off for ever.
SpecSweep ==
    /\ SweepInit /\ [][OffersNext]_vars
    /\ \A w \in Works : WF_vars(Sweep(w))

\* The allocation side reaches the state the sweep side starts from.
SweepInitReached ==
    /\ now = 0 /\ works = [OfferRows EXCEPT ![2] = NoWork] /\ inflight = EmptyBag
    /\ items = FileItems(0)
    /\ claims = [p \in Users \X Works |-> <<>>]

\* The allocation side reaches the state the two-offer side starts from.
OffersInitReached ==
    /\ now = 0 /\ works = OfferRows /\ inflight = EmptyBag
    /\ items = FileItems(0)
    /\ claims = [p \in Users \X Works |-> <<>>]

(***************************************************************************)
(* Properties of the allocation side.                                      *)
(***************************************************************************)
ClaimsOf(w) == {c \in ClaimIds : Claim(c).work = w}
WithStatus(S, st) == {c \in S : Claim(c).status = st}

\* C1: no inventory item is ever used more often than its reuse limit,
\* whichever offers of the batch the allocations come from.
C1_UsedCountWithinLimit == \A i \in Items : items[i] <= reuse_limit

\* C1 witness: an item is at its limit through claims of two different offers.
C1_Witness ==
    \E i \in Items, c1 \in ClaimIds, c2 \in ClaimIds :
        /\ items[i] = reuse_limit
        /\ Claim(c1).file_item = i /\ Claim(c2).file_item = i
        /\ Claim(c1).work # Claim(c2).work
        /\ \E r \in BagToSet(inflight) : r.op = "claim"

\* C2: every offer keeps 0 <= remaining_slots <= total_slots.
C2_SlotsInRange ==
    \A w \in Works : /\ 0 <= works[w].remaining_slots
                      /\ works[w].remaining_slots <= works[w].total_slots

\* C2 witness: a sold-out offer whose slot was swept and allocated again,
\* with one more allocation request on it in flight.
C2_Witness ==
    \E w \in Works :
        /\ works[w].exists /\ works[w].remaining_slots = 0
        /\ WithStatus(ClaimsOf(w), "expired") # {}
        /\ WithStatus(ClaimsOf(w), "claimed") # {}
        /\ \E r \in BagToSet(inflight) : r.op = "claim" /\ r.work = w

\* C3: for every offer, remaining_slots plus its claims in status claimed
\* equals total_slots minus its claims in status submitted.
C3_SlotAccounting ==
    \A w \in Works :
        works[w].remaining_slots + Cardinality(WithStatus(ClaimsOf(w), "claimed"))
          = works[w].total_slots - Cardinality(WithStatus(ClaimsOf(w), "submitted"))

\* C4: at most one claim row exists for every (user, offer) pair.
C4_OneClaimPerUserWork == \A u \in Users, w \in Works : Len(claims[u, w]) <= 1

\* C4 witness: the pair has its claim and a second allocation request of the
\* same user on the same offer has passed its checks.
C4_Witness ==
    \E u \in Users, w \in Works :
        /\ Len(claims[u, w]) = 1
        /\ \E r \in BagToSet(inflight) : r.op = "claim" /\ r.user = u /\ r.work = w

\* The claims of a user that are in status claimed with the deadline ahead.
ActiveClaims(u) ==
    {c \in ClaimIds : /\ Claim(c).user = u /\ Claim(c).status = "claimed"
                      /\ Claim(c).expires_at > now}

\* C5: every user has at most one active claim (status claimed, deadline
\* in the future) across all offers.
C5_OneActiveClaimPerUser == \A u \in Users : Cardinality(ActiveClaims(u)) <= 1

\* A sweep that returns a slot; one that finds no row changes no variable.
SweepStep(w, t) == works' # works /\ SweepExpire(w, t)

\* The claims a step takes to status expired.
NewlyExpired ==
    {c \in ClaimIds : /\ Claim(c).status # "expired"
                      /\ claims'[c[1], c[2]][c[3]].status = "expired"}

\* C16: a sweep of an offer expires only claims of that offer that are in
\* status claimed with the deadline passed, changes no other claim, and
\* leaves the remaining_slots of every other offer alone.
C16_SweepExpiresOnlyDueClaims ==
    [][\A w \in Works, t \in Times :
          SweepStep(w, t) =>
             /\ \A c \in NewlyExpired : /\ Claim(c).work = w
                                        /\ Claim(c).status = "claimed"
                                        /\ Claim(c).expires_at <= now
             /\ \A c \in ClaimIds \ NewlyExpired :
                   claims'[c[1], c[2]][c[3]] = Claim(c)
             /\ \A w2 \in Works \ {w} : works'[w2] = works[w2]
      ]_vars

\* C16 witness: an offer was swept and has an expired claim, while another
\* offer still has a claimed claim whose deadline has passed.
C16_Witness ==
    \E c1 \in ClaimIds, c2 \in ClaimIds :
        /\ Claim(c1).status = "expired"
        /\ Claim(c2).work # Claim(c1).work
        /\ Claim(c2).status = "claimed" /\ Claim(c2).expires_at <= now

\* C17: a sweep adds to remaining_slots one for each claim it expires, takes
\* one from the used_count of each such claim's item, and returns their
\* number as its count.
C17_SweepRevertsOnePerClaim ==
    [][\A w \in Works, t \in Times :
          SweepStep(w, t) =>
             /\ works'[w].remaining_slots =
                   works[w].remaining_slots + Cardinality(NewlyExpired)
             /\ \A i \in Items :
                   items'[i] = items[i]
                       - Cardinality({c \in NewlyExpired : Claim(c).file_item = i})
             /\ sweep(w, t).count = Cardinality(NewlyExpired)
      ]_vars

\* C17 witness: the one claim of a one-slot offer timed out and was swept;
\* the slot and the use of the item are back.
C17_Witness ==
    \E c \in ClaimIds :
        /\ Claim(c).status = "expired"
        /\ works[Claim(c).work].total_slots = 1
        /\ works[Claim(c).work].remaining_slots = 1
        /\ items[Claim(c).file_item] = 0

\* C18: after a sweep of an offer, another sweep of it with the same clock
\* reading expires nothing and changes no counter, and no sweep takes a
\* claim that is already expired.
C18_SweepIdempotent ==
    [][\A w \in Works, t \in Times :
          SweepStep(w, t) =>
             /\ (to_expire(w, t))' = {}
             /\ (sweep(w, t).count)' = 0
             /\ (sweep(w, t).items)' = items'
             /\ (sweep(w, t).remaining_slots)' = works'[w].remaining_slots
             /\ \A c \in sweep(w, t).expired : Claim(c).status # "expired"
      ]_vars

\* C18 witness: both claims of a two-slot offer timed out and were swept;
\* every slot and every use of the item came back once.
C18_Witness ==
    \E w \in Works :
        /\ Cardinality(WithStatus(ClaimsOf(w), "expired")) = 2
        /\ works[w].total_slots = 2 /\ works[w].remaining_slots = 2
        /\ \A i \in Items : items[i] = 0

\* C19: the claimed claims of an offer never outnumber the slots taken from
\* it, and no slot is taken that the offer does not have: requests that race
\* for k remaining slots create at most k claims.
C19_ClaimsWithinSlots ==
    \A w \in Works :
        /\ Cardinality(WithStatus(ClaimsOf(w), "claimed"))
              <= works[w].total_slots - works[w].remaining_slots
        /\ works[w].total_slots - works[w].remaining_slots <= works[w].total_slots

\* C19 witness: a one-slot offer whose batch has no use of an item left; one
\* user holds its claim and the request of another user, which passed its
\* checks at the same time, is about to be refused.
C19_Witness ==
    \E c \in ClaimIds, r \in BagToSet(inflight) :
        /\ works[Claim(c).work].total_slots = 1
        /\ works[Claim(c).work].remaining_slots = 0
        /\ Claim(c).status = "claimed"
        /\ \A i \in file_batch_items : items[i] = reuse_limit
        /\ r.op = "claim" /\ r.work = Claim(c).work /\ r.user # Claim(c).user

\* C20: allocation is all-or-nothing: a step that adds no claim row takes no
\* slot and no use of an item, and the transaction of a refused request
\* leaves the offers, the items and the claims as they were.
C20_AllocationAllOrNothing ==
    [][/\ (\A p \in Users \X Works : Len(claims'[p]) = Len(claims[p])) =>
            /\ \A w \in Works : works'[w].remaining_slots >= works[w].remaining_slots
            /\ \A i \in Items : items'[i] <= items[i]
       /\ \A r \in BagToSet(inflight) :
            (ClaimTxn(r) /\ Len(claims'[r.user, r.work]) = Len(claims[r.user, r.work])) =>
               /\ works' = works /\ items' = items /\ claims' = claims
      ]_vars

\* C20 witness: a user holds a claim on an offer that still has a slot and an
\* item to give, and a second request of the same user on that offer has
\* passed its checks: its insert will be refused after the counters were
\* written.
C20_Witness ==
    \E c \in ClaimIds, r \in BagToSet(inflight) :
        /\ r.op = "claim" /\ r.user = Claim(c).user /\ r.work = Claim(c).work
        /\ ~sold_out(r.work)
        /\ candidate_ids # {}

\* The remaining slots of all the offers made from the batch.
slots_on_batch ==
    SumOver(Works, [w \in Works |-> IF works[w].exists THEN works[w].remaining_slots ELSE 0])

\* C38: the remaining slots of the offers made from the batch never exceed
\* the remaining capacity of the batch, so an offer that has a slot left
\* always finds an item of the batch below its reuse limit, also when
\* several offers are made from the batch.
C38_SlotsWithinCapacity ==
    /\ slots_on_batch <= remaining_capacity
    /\ \A w \in Works :
          (works[w].exists /\ ~sold_out(w)) => candidate_ids # {}

\* The claims assigned to item i that are claimed or submitted.
LiveClaims(i) ==
    {c \in ClaimIds : /\ Claim(c).file_item = i
                      /\ Claim(c).status \in {"claimed", "submitted"}}

\* C34: the used_count of every item is the number of claims assigned to it,
\* of any offer, that are claimed or submitted; so it is never negative and
\* no use of an item is held without such a claim.
C34_UsedCountIsLiveClaims ==
    \A i \in Items : items[i] = Cardinality(LiveClaims(i))

\* The claim of user u on offer w is claimed and its deadline has passed.
Overdue(u, w) ==
    /\ claims[u, w] # <<>>
    /\ claims[u, w][1].status = "claimed"
    /\ claims[u, w][1].expires_at <= now

\* The claim of user u on offer w is expired, and the offer has a slot and
\* the item of the claim a use to give.
Released(u, w) ==
    /\ claims[u, w] # <<>>
    /\ claims[u, w][1].status = "expired"
    /\ works[w].remaining_slots > 0
    /\ items[claims[u, w][1].file_item] < reuse_limit

\* C33: with the sweep of its offer invoked again and again, a claim whose
\* deadline has passed and that is not submitted becomes expired, and at that
\* moment its offer has a slot and its item a use for another user.
C33_OverdueClaimExpires ==
    \A u \in Users, w \in Works :
        Overdue(u, w) ~>
            (Released(u, w) \/ (claims[u, w] # <<>> /\ claims[u, w][1].status = "submitted"))

\* C33 witness: a claim was swept after its deadline while the other user
\* holds the other slot of the offer and the second use of the same item: the
\* offer has a slot and the item a use to give.
C33_Witness ==
    \E u \in Users, w \in Works, c \in ClaimIds :
        /\ Released(u, w)
        /\ Claim(c).user # u /\ Claim(c).status = "claimed"
        /\ Claim(c).file_item = claims[u, w][1].file_item
        /\ items[Claim(c).file_item] = 1
        /\ works[w].remaining_slots = works[w].total_slots - 1

\* C32: a successful allocation adds one claim row and changes no other:
\* the new claim is claimed and pending_review, carries the price_per_item of
\* its offer and expires deadline_minutes after the clock reading of its
\* request; the offer loses one remaining slot and no other offer changes;
\* one item, of the batch of the offer and below its reuse limit, gains one
\* use and no other item changes.
C32_AllocationEffects ==
    [][\A u \in Users, w \in Works :
          Len(claims'[u, w]) > Len(claims[u, w]) =>
             LET new == claims'[u, w][Len(claims'[u, w])] IN
             /\ claims' = [claims EXCEPT ![u, w] = Append(@, new)]
             /\ new.user = u /\ new.work = w
             /\ new.status = "claimed" /\ new.review_status = "pending_review"
             /\ new.payout_amount = price_per_item[w]
             /\ \E t \in Times : t <= now /\ new.expires_at = t + deadline_minutes
             /\ \E r \in BagToSet(inflight) :
                   /\ r.op = "claim" /\ r.user = u /\ r.work = w
                   /\ new.expires_at = r.t
             /\ works' = [works EXCEPT ![w].remaining_slots = @ - 1]
             /\ \E i \in file_batch_items :
                   /\ items[i] < reuse_limit
                   /\ new.file_item = i
                   /\ items' = [items EXCEPT ![i] = @ + 1]
      ]_vars

\* C32 witness: a claim allocated after the clock moved: it expires
\* deadline_minutes after that reading, its offer has one slot less than it
\* was created with, its item has one use, and the items of the other file
\* have none.
C32_Witness ==
    \E c \in ClaimIds :
        /\ now = TickStep
        /\ Claim(c).status = "claimed" /\ Claim(c).review_status = "pending_review"
        /\ Claim(c).expires_at = now + deadline_minutes
        /\ Claim(c).payout_amount = price_per_item[Claim(c).work]
        /\ works[Claim(c).work].remaining_slots = works[Claim(c).work].total_slots - 1
        /\ Claim(c).file_item \in BatchItems
        /\ items[Claim(c).file_item] = 1
        /\ \A i \in OtherBatchItems : items[i] = 0

(***************************************************************************)
(* WalletTransaction.apply_transaction                                     *)
(***************************************************************************)
NoTxn == [kind |-> "", amount |-> 0, ref_claim |-> <<>>, note |-> <<>>]

Txn(kind, amount, ref_claim, note) ==
    [kind |-> kind, amount |-> amount, ref_claim |-> ref_claim, note |-> note]

\* A note names what the transaction is about: "Approved claim #id",
\* "Hold for WR#pk", "Approved WR#pk", "Reversal of hold WR#pk",
\* "MilestonePayout#id - n views".
Note(about, id) == [about |-> about, id |-> id]

\* apply_transaction that appends the row and leaves the cached balance alone.
apply_transaction_no_balance(u, kind, amount, ref_claim, note) ==
    /\ transactions' = [transactions EXCEPT
           ![u] = @ (+) SetToBag({Txn(kind, amount, ref_claim, note)})]
    /\ UNCHANGED wallets

apply_transaction(u, kind, amount, ref_claim, note) ==
    /\ transactions' = [transactions EXCEPT
           ![u] = @ (+) SetToBag({Txn(kind, amount, ref_claim, note)})]
    /\ wallets' = [wallets EXCEPT ![u] = @ + amount]

\* The rows of a wallet; equal rows are told apart by their number of copies.
TxnRows(u) == BagToSet(transactions[u])

(***************************************************************************)
(* AdminApproveClaimView.post, AdminRejectClaimView.post                   *)
(***************************************************************************)
SetClaim(c, field, v) ==
    [claims EXCEPT ![c[1], c[2]][c[3]] = [@ EXCEPT ![field] = v]]

\* The lookup of an earlier credit that never finds one.
already_credited_never(c) == FALSE

\* wallet.transactions.filter(kind="task_credit", ref_claim=claim).exists()
already_credited(c) ==
    \E x \in TxnRows(Claim(c).user) : x.kind = "task_credit" /\ x.ref_claim = c

AdminApproveClaim(c) ==
    /\ c \in ClaimIds
    /\ IF Claim(c).review_status = "approved"
       THEN UNCHANGED <<claims, wallets, transactions>>
       ELSE /\ claims' = SetClaim(c, "review_status", "approved")
            /\ IF already_credited(c)
               THEN UNCHANGED <<wallets, transactions>>
               ELSE apply_transaction(Claim(c).user, "task_credit",
                        Claim(c).payout_amount, c, Note("claim", c))
    /\ UNCHANGED <<now, works, items, inflight, withdrawals, payouts,
                   min_withdraw_amount>>

AdminRejectClaim(c) ==
    /\ c \in ClaimIds
    /\ IF Claim(c).review_status = "rejected"
       THEN UNCHANGED claims
       ELSE claims' = SetClaim(c, "review_status", "rejected")
    /\ UNCHANGED <<now, works, items, inflight, ledgerVars>>

(***************************************************************************)
(* MyWithdrawRequestView.post                                              *)
(***************************************************************************)
RECURSIVE BagSum(_, _)
\* The sum of f over the copies of a bag.
BagSum(B, f) ==
    IF B = EmptyBag THEN 0
    ELSE LET x == CHOOSE y \in BagToSet(B) : TRUE
         IN f[x] + BagSum(B (-) SetToBag({x}), f)

WithdrawsInFlight(u) ==
    BagSum(inflight, [r \in BagToSet(inflight) |->
                         IF r.op = "withdraw" /\ r.user = u THEN 1 ELSE 0])

\* Lines 45-59: amount, minimum and balance are checked before the transaction.
WithdrawCheck(u, amount) ==
    /\ CanLaunch
    /\ Len(withdrawals[u]) + WithdrawsInFlight(u) < MaxWithdrawals
    /\ amount > 0
    /\ ~(amount < min_withdraw_amount)
    /\ ~(wallets[u] < amount)
    /\ inflight' = Launch(Req("withdraw", u, 0, NoRow, 0, amount, ""))
    /\ UNCHANGED <<allocVars, ledgerVars>>

\* Lines 61-65: the request row and its hold.
WithdrawTxn(r) ==
    /\ BagIn(r, inflight) /\ r.op = "withdraw"
    /\ inflight' = Finish(r)
    /\ withdrawals' = [withdrawals EXCEPT ![r.user] =
           Append(@, [amount |-> r.amount, status |-> "pending"])]
    /\ apply_transaction(r.user, "withdrawal_hold", -r.amount, NoRow,
           Note("WR", <<r.user, Len(withdrawals[r.user]) + 1>>))
    /\ UNCHANGED <<allocVars, payouts, min_withdraw_amount>>

(***************************************************************************)
(* AdminWithdrawApproveView.post, AdminWithdrawRejectView.post             *)
(***************************************************************************)
WithdrawalIds == {pk \in Users \X (1..(MaxWithdrawals + 1)) :
                     pk[2] <= Len(withdrawals[pk[1]])}
Withdrawal(pk) == withdrawals[pk[1]][pk[2]]

\* Lines 89-94 and 114-119: the row is read (no lock is taken) and must be pending.
WithdrawDecideRead(pk, decision) ==
    /\ CanLaunch
    /\ pk \in WithdrawalIds
    /\ Withdrawal(pk).status = "pending"
    /\ inflight' = Launch(Req(decision, pk[1], 0, pk, 0, Withdrawal(pk).amount, ""))
    /\ UNCHANGED <<allocVars, ledgerVars>>

\* An approval that debits the amount a second time.
WithdrawApproveTxn_debits_again(r) ==
    /\ BagIn(r, inflight) /\ r.op = "approve_withdrawal"
    /\ inflight' = Finish(r)
    /\ withdrawals' = [withdrawals EXCEPT ![r.row[1]][r.row[2]].status = "approved"]
    /\ apply_transaction(r.row[1], "withdrawal", -r.amount, NoRow, Note("WR", r.row))
    /\ UNCHANGED <<allocVars, payouts, min_withdraw_amount>>

\* Lines 96-105: save(update_fields=["status", "processed_at"]) and the marker.
WithdrawApproveTxn(r) ==
    /\ BagIn(r, inflight) /\ r.op = "approve_withdrawal"
    /\ inflight' = Finish(r)
    /\ withdrawals' = [withdrawals EXCEPT ![r.row[1]][r.row[2]].status = "approved"]
    /\ apply_transaction(r.row[1], "withdrawal", 0, NoRow, Note("WR", r.row))
    /\ UNCHANGED <<allocVars, payouts, min_withdraw_amount>>

\* A rejection that gives the amount back by deleting the hold.
WithdrawRejectTxn_deletes_hold(r) ==
    /\ BagIn(r, inflight) /\ r.op = "reject_withdrawal"
    /\ inflight' = Finish(r)
    /\ withdrawals' = [withdrawals EXCEPT ![r.row[1]][r.row[2]].status = "rejected"]
    /\ transactions' = [transactions EXCEPT ![r.row[1]] = @ (-)
           SetToBag({Txn("withdrawal_hold", -r.amount, NoRow, Note("WR", r.row))})]
    /\ wallets' = [wallets EXCEPT ![r.row[1]] = @ + r.amount]
    /\ UNCHANGED <<allocVars, payouts, min_withdraw_amount>>

\* A rejection that records a zero-amount marker, as the approval does.
WithdrawRejectTxn_marker_only(r) ==
    /\ BagIn(r, inflight) /\ r.op = "reject_withdrawal"
    /\ inflight' = Finish(r)
    /\ withdrawals' = [withdrawals EXCEPT ![r.row[1]][r.row[2]].status = "rejected"]
    /\ apply_transaction(r.row[1], "reversal", 0, NoRow, Note("WR", r.row))
    /\ UNCHANGED <<allocVars, payouts, min_withdraw_amount>>

\* Lines 121-130: save(update_fields=["status", ...]) and the reversal.
WithdrawRejectTxn(r) ==
    /\ BagIn(r, inflight) /\ r.op = "reject_withdrawal"
    /\ inflight' = Finish(r)
    /\ withdrawals' = [withdrawals EXCEPT ![r.row[1]][r.row[2]].status = "rejected"]
    /\ apply_transaction(r.row[1], "reversal", r.amount, NoRow, Note("WR", r.row))
    /\ UNCHANGED <<allocVars, payouts, min_withdraw_amount>>

(***************************************************************************)
(* WorkClaimAdmin: no view stores youtube_video_id; the admin screen of    *)
(* the claim table is the one place where the field is entered.            *)
(***************************************************************************)
WorkClaimAdminSetVideoId(c) ==
    /\ c \in ClaimIds
    /\ ~Claim(c).youtube_video_id
    /\ claims' = SetClaim(c, "youtube_video_id", TRUE)
    /\ UNCHANGED <<now, works, items, inflight, ledgerVars>>

\* The same screen lists payout_amount among its editable fields.
WorkClaimAdminSetPayoutAmount(c, amount) ==
    /\ c \in ClaimIds
    /\ Claim(c).payout_amount # amount
    /\ claims' = SetClaim(c, "payout_amount", amount)
    /\ UNCHANGED <<now, works, items, inflight, ledgerVars>>

(***************************************************************************)
(* CronMetricsRefreshView.get                                              *)
(***************************************************************************)
RuleIds == DOMAIN MilestoneRules
PayoutIds == DOMAIN payouts

\* Lines 88-99: the claims due for a refresh are read; the rows stay as read.
MetricsRefreshRead(c) ==
    /\ CanLaunch
    /\ c \in ClaimIds
    /\ Claim(c).youtube_video_id
    /\ \/ Claim(c).status = "submitted"
       \/ Claim(c).review_status \in {"approved", "pending_review"}
    /\ Claim(c).next_check_at = Null \/ Claim(c).next_check_at <= now
    /\ inflight' = Launch(Req("refresh", Claim(c).user, Claim(c).work, c, now, 0,
                              Claim(c).review_status))
    /\ UNCHANGED <<allocVars, ledgerVars>>

\* A handler that takes a failed fetch for an empty answer and stores it.
MetricsRefreshFetchFailed_saves_zero(r) ==
    /\ BagIn(r, inflight) /\ r.op = "refresh"
    /\ claims' = [claims EXCEPT
           ![r.row[1], r.row[2]][r.row[3]].yt_views = 0,
           ![r.row[1], r.row[2]][r.row[3]].next_check_at = r.t + METRICS_COOLDOWN,
           ![r.row[1], r.row[2]][r.row[3]].metrics_log = @ + 1]
    /\ inflight' = Finish(r)
    /\ UNCHANGED <<now, works, items, ledgerVars>>

\* Lines 102-105: fetch_video_stats_batch raises (utils_youtube.py line 43,
\* raise_for_status) and the handler answers 500 before its loop.
MetricsRefreshFetchFailed(r) ==
    /\ BagIn(r, inflight) /\ r.op = "refresh"
    /\ inflight' = Finish(r)
    /\ UNCHANGED <<now, works, items, claims, ledgerVars>>

\* Lines 148-151: the active rules at or below the view count, by threshold.
crossed_rules(views) ==
    SelectSeq([q \in RuleIds |-> q],
              LAMBDA q : MilestoneRules[q].active
                         /\ MilestoneRules[q].threshold_views <= views)

\* Lines 111-151 for one claim of the batch, with the views the provider
\* reported: the claim is saved and its snapshot logged in autocommit mode,
\* then the rules to record are selected; review_status is the one read with
\* the batch.
MetricsRefreshSave(r, views) ==
    /\ BagIn(r, inflight) /\ r.op = "refresh"
    /\ claims' = [claims EXCEPT
           ![r.row[1], r.row[2]][r.row[3]].yt_views = views,
           ![r.row[1], r.row[2]][r.row[3]].next_check_at = r.t + METRICS_COOLDOWN,
           ![r.row[1], r.row[2]][r.row[3]].metrics_log = @ + 1]
    /\ inflight' = IF r.seen = "approved" /\ crossed_rules(views) # <<>>
                   THEN Finish(r) (+) SetToBag({Req("refresh_rules", r.user, r.work,
                            r.row, r.t, views, crossed_rules(views))})
                   ELSE Finish(r)
    /\ UNCHANGED <<now, works, items, ledgerVars>>

\* The lookup that finds no MilestonePayout row.
payout_rows_none(c, q) == {}

\* MilestonePayout.objects.filter(claim=claim, rule=rule)
payout_rows(c, q) == {p \in PayoutIds : payouts[p].claim = c /\ payouts[p].rule = q}

payout_exists(c, q) == payout_rows(c, q) # {}

\* models.UniqueConstraint(fields=["claim", "rule"]): the insert is refused.
uniq_claim_rule_once(c, q) == payout_rows(c, q) = {}

\* The row id the store gives to a new payout: ids only grow, and `others`
\* payouts of claims outside the model were created since the last one.
next_payout_id(others) ==
    1 + others + (IF PayoutIds = {} THEN 0
                  ELSE CHOOSE p \in PayoutIds : \A q \in PayoutIds : q <= p)

\* A refresh that writes its views into the payout it finds.
MetricsRefreshRule_updates_snapshot(r, others) ==
    /\ BagIn(r, inflight) /\ r.op = "refresh_rules"
    /\ LET q == Head(r.seen)
           pk == next_payout_id(others)
           row == [claim |-> r.row, rule |-> q, views_snapshot |-> r.amount,
                   amount |-> MilestoneRules[q].payout_amount,
                   status |-> "pending_review", credited_txn |-> NoTxn]
       IN /\ payouts' = IF ~payout_exists(r.row, q) /\ uniq_claim_rule_once(r.row, q)
                        THEN [p \in PayoutIds \cup {pk} |->
                                 IF p = pk THEN row ELSE payouts[p]]
                        ELSE [p \in PayoutIds |->
                                 IF p \in payout_rows(r.row, q)
                                 THEN [payouts[p] EXCEPT !.views_snapshot = r.amount]
                                 ELSE payouts[p]]
          /\ inflight' = IF Tail(r.seen) = <<>> THEN Finish(r)
                         ELSE Finish(r) (+) SetToBag({[r EXCEPT !.seen = Tail(r.seen)]})
    /\ UNCHANGED <<allocVars, wallets, transactions, withdrawals, min_withdraw_amount>>

\* A refresh that credits the bonus as soon as it records the payout.
MetricsRefreshRule_credits(r, others) ==
    /\ BagIn(r, inflight) /\ r.op = "refresh_rules"
    /\ LET q == Head(r.seen)
           pk == next_payout_id(others)
           row == [claim |-> r.row, rule |-> q, views_snapshot |-> r.amount,
                   amount |-> MilestoneRules[q].payout_amount,
                   status |-> "pending_review", credited_txn |-> NoTxn]
       IN /\ IF ~payout_exists(r.row, q) /\ uniq_claim_rule_once(r.row, q)
             THEN /\ payouts' = [p \in PayoutIds \cup {pk} |->
                                    IF p = pk THEN row ELSE payouts[p]]
                  /\ apply_transaction(r.user, "milestone_bonus",
                         MilestoneRules[q].payout_amount, r.row,
                         Note("MilestonePayout", pk))
             ELSE UNCHANGED <<payouts, wallets, transactions>>
          /\ inflight' = IF Tail(r.seen) = <<>> THEN Finish(r)
                         ELSE Finish(r) (+) SetToBag({[r EXCEPT !.seen = Tail(r.seen)]})
    /\ UNCHANGED <<allocVars, withdrawals, min_withdraw_amount>>

\* Lines 156-168: the transaction for the next rule of the request.
MetricsRefreshRule(r, others) ==
    /\ BagIn(r, inflight) /\ r.op = "refresh_rules"
    /\ LET q == Head(r.seen)
           pk == next_payout_id(others)
           row == [claim |-> r.row, rule |-> q, views_snapshot |-> r.amount,
                   amount |-> MilestoneRules[q].payout_amount,
                   status |-> "pending_review", credited_txn |-> NoTxn]
       IN /\ payouts' = IF ~payout_exists(r.row, q) /\ uniq_claim_rule_once(r.row, q)
                        THEN [p \in PayoutIds \cup {pk} |->
                                 IF p = pk THEN row ELSE payouts[p]]
                        ELSE payouts
          /\ inflight' = IF Tail(r.seen) = <<>> THEN Finish(r)
                         ELSE Finish(r) (+) SetToBag({[r EXCEPT !.seen = Tail(r.seen)]})
    /\ UNCHANGED <<allocVars, wallets, transactions, withdrawals, min_withdraw_amount>>

(***************************************************************************)
(* AdminMilestoneApproveView.post, AdminMilestoneRejectView.post           *)
(***************************************************************************)
RECURSIVE IsDecimalPrefix(_, _)
\* "MilestonePayout#a" is contained in the note "MilestonePayout#b - n views"
IsDecimalPrefix(a, b) ==
    \/ a = b
    \/ b >= 10 /\ IsDecimalPrefix(a, b \div 10)

\* The lookup of an earlier bonus that never finds one.
credited_by_note_none(u, p) == {}

\* wallet.transactions.filter(kind="milestone_bonus", note__icontains=...)
credited_by_note(u, p) ==
    {x \in TxnRows(u) : x.kind = "milestone_bonus" /\ IsDecimalPrefix(p, x.note.id)}

AdminMilestoneApprove(p) ==
    /\ p \in PayoutIds
    /\ LET u == payouts[p].claim[1]
           found == credited_by_note(u, p)
       IN IF payouts[p].status = "approved" /\ payouts[p].credited_txn # NoTxn
          THEN UNCHANGED <<payouts, wallets, transactions>>
          ELSE IF found # {}
          THEN /\ \E x \in found :
                    payouts' = [payouts EXCEPT ![p].status = "approved",
                                               ![p].credited_txn = x]
               /\ UNCHANGED <<wallets, transactions>>
          ELSE /\ apply_transaction(u, "milestone_bonus", payouts[p].amount,
                       payouts[p].claim, Note("MilestonePayout", p))
               /\ payouts' = [payouts EXCEPT ![p].status = "approved",
                       ![p].credited_txn = Txn("milestone_bonus", payouts[p].amount,
                           payouts[p].claim, Note("MilestonePayout", p))]
    /\ UNCHANGED <<allocVars, inflight, withdrawals, min_withdraw_amount>>

AdminMilestoneReject(p) ==
    /\ p \in PayoutIds
    /\ IF payouts[p].status = "rejected"
       THEN UNCHANGED payouts
       ELSE payouts' = [payouts EXCEPT ![p].status = "rejected"]
    /\ UNCHANGED <<allocVars, inflight, wallets, transactions, withdrawals,
                   min_withdraw_amount>>

(***************************************************************************)
(* Ledger side: reviews, withdrawals and milestone payouts, started from a *)
(* state of the allocation side in which one submitted claim exists.       *)
(***************************************************************************)
ClaimRow(u, w, st, exp) ==
    [user |-> u, work |-> w, file_item |-> 1, status |-> st,
     review_status |-> "pending_review", payout_amount |-> price_per_item[w],
     expires_at |-> exp, youtube_url |-> (st = "submitted"),
     youtube_video_id |-> FALSE, yt_views |-> 0, next_check_at |-> Null,
     metrics_log |-> 0]

LedgerClaims ==
    [p \in Users \X Works |->
        IF p = <<1, 1>> THEN <<ClaimRow(1, 1, "submitted", 60)>>
        ELSE <<>>]

LedgerInit ==
    /\ now = 60
    /\ works = [w \in Works |->
                  IF w = 1 THEN [exists |-> TRUE, total_slots |-> 1, remaining_slots |-> 0]
                  ELSE NoWork]
    /\ items = FileItems(1)
    /\ claims = LedgerClaims
    /\ inflight = EmptyBag
    /\ wallets = [u \in Users |-> 0]
    /\ transactions = [u \in Users |-> EmptyBag]
    /\ withdrawals = [u \in Users |-> <<>>]
    /\ payouts = <<>>
    /\ min_withdraw_amount = price_per_item[1]   \* the admin set it to one task's price

LedgerNext ==
    \/ \E c \in ClaimIds : AdminApproveClaim(c)
    \/ \E c \in ClaimIds : AdminRejectClaim(c)
    \/ \E u \in Users, a \in Amounts : WithdrawCheck(u, a)
    \/ \E r \in BagToSet(inflight) : WithdrawTxn(r)
    \/ \E pk \in WithdrawalIds : WithdrawDecideRead(pk, "approve_withdrawal")
    \/ \E pk \in WithdrawalIds : WithdrawDecideRead(pk, "reject_withdrawal")
    \/ \E r \in BagToSet(inflight) : WithdrawApproveTxn(r)
    \/ \E r \in BagToSet(inflight) : WithdrawRejectTxn(r)
    \/ \E c \in ClaimIds : WorkClaimAdminSetVideoId(c)
    \/ \E c \in ClaimIds : MetricsRefreshRead(c)
    \/ \E r \in BagToSet(inflight), v \in ViewsReported : MetricsRefreshSave(r, v)
    \/ \E r \in BagToSet(inflight) : MetricsRefreshRule(r, 0)   \* consecutive ids
    \/ \E p \in PayoutIds : AdminMilestoneApprove(p)
    \/ \E p \in PayoutIds : AdminMilestoneReject(p)
    \/ \E r \in BagToSet(inflight) : DatabaseLocked(r)

SpecLedger == LedgerInit /\ [][LedgerNext]_vars

\* The allocation side reaches the state the ledger side starts from.
LedgerInitReached ==
    /\ now = 60 /\ claims = LedgerClaims /\ inflight = EmptyBag
    /\ items = FileItems(1)
    /\ works[1] = [exists |-> TRUE, total_slots |-> 1, remaining_slots |-> 0]
    /\ ~works[2].exists

(***************************************************************************)
(* Milestone side: metrics refreshes and the review of milestone payouts,  *)
(* started from a state of the ledger side in which the claim is approved, *)
(* credited, and has its video id entered.                                 *)
(***************************************************************************)
ViewsCrossing == {9, 15, 25}   \* view counts that cross no rule, one rule, or both

MilestoneClaims ==
    [p \in Users \X Works |->
        IF p = <<1, 1>>
        THEN <<[ClaimRow(1, 1, "submitted", 60) EXCEPT
                   !.review_status = "approved", !.youtube_video_id = TRUE]>>
        ELSE <<>>]

MilestoneInit ==
    /\ now = 60
    /\ works = [w \in Works |->
                  IF w = 1 THEN [exists |-> TRUE, total_slots |-> 1, remaining_slots |-> 0]
                  ELSE NoWork]
    /\ items = FileItems(1)
    /\ claims = MilestoneClaims
    /\ inflight = EmptyBag
    /\ wallets = [u \in Users |-> IF u = 1 THEN price_per_item[1] ELSE 0]
    /\ transactions = [u \in Users |->
           IF u = 1 THEN SetToBag({Txn("task_credit", price_per_item[1], <<1, 1, 1>>,
                                       Note("claim", <<1, 1, 1>>))})
           ELSE EmptyBag]
    /\ withdrawals = [u \in Users |-> <<>>]
    /\ payouts = <<>>
    /\ min_withdraw_amount = price_per_item[1]

MilestoneNext ==
    \/ \E c \in ClaimIds : MetricsRefreshRead(c)
    \/ \E r \in BagToSet(inflight) : MetricsRefreshFetchFailed(r)
    \/ \E r \in BagToSet(inflight), v \in ViewsCrossing : MetricsRefreshSave(r, v)
    \/ \E r \in BagToSet(inflight), n \in OtherPayouts : MetricsRefreshRule(r, n)
    \/ \E p \in PayoutIds : AdminMilestoneApprove(p)
    \/ \E p \in PayoutIds : AdminMilestoneReject(p)
    \/ \E r \in BagToSet(inflight) : DatabaseLocked(r)

SpecMilestone == MilestoneInit /\ [][MilestoneNext]_vars

\* The ledger side reaches the state the milestone side starts from.
MilestoneInitReached ==
    /\ now = 60 /\ claims = MilestoneClaims /\ inflight = EmptyBag
    /\ wallets = [u \in Users |-> IF u = 1 THEN price_per_item[1] ELSE 0]
    /\ BagToSet(transactions[1]) = {Txn("task_credit", price_per_item[1], <<1, 1, 1>>,
                                        Note("claim", <<1, 1, 1>>))}
    /\ transactions[2] = EmptyBag
    /\ withdrawals = [u \in Users |-> <<>>] /\ payouts = <<>>

(***************************************************************************)
(* Coverage by the milestone engine: the claim was submitted through       *)
(* WorkClaimSubmitView and approved; the refresh is called again and again *)
(* by its scheduler, no transaction of it is refused by the store, and the *)
(* handler runs to its end.  Nothing obliges an admin to open the claim    *)
(* screen.                                                                 *)
(***************************************************************************)
ViewsAbove == {15, 25}   \* view counts at or above the threshold of the first rule

CoveredClaims ==
    [p \in Users \X Works |->
        IF p = <<1, 1>>
        THEN <<[ClaimRow(1, 1, "submitted", 60) EXCEPT !.review_status = "approved"]>>
        ELSE <<>>]

CoveredInit ==
    /\ now = 60
    /\ works = [w \in Works |->
                  IF w = 1 THEN [exists |-> TRUE, total_slots |-> 1, remaining_slots |-> 0]
                  ELSE NoWork]
    /\ items = FileItems(1)
    /\ claims = CoveredClaims
    /\ inflight = EmptyBag
    /\ wallets = [u \in Users |-> IF u = 1 THEN price_per_item[1] ELSE 0]
    /\ transactions = [u \in Users |->
           IF u = 1 THEN SetToBag({Txn("task_credit", price_per_item[1], <<1, 1, 1>>,
                                       Note("claim", <<1, 1, 1>>))})
           ELSE EmptyBag]
    /\ withdrawals = [u \in Users |-> <<>>]
    /\ payouts = <<>>
    /\ min_withdraw_amount = price_per_item[1]

RefreshRead == \E c \in ClaimIds : MetricsRefreshRead(c)
RefreshSave == \E r \in BagToSet(inflight), v \in ViewsAbove : MetricsRefreshSave(r, v)
RefreshRule == \E r \in BagToSet(inflight), n \in OtherPayouts : MetricsRefreshRule(r, n)

CoveredNext ==
    \/ \E c \in ClaimIds : WorkClaimAdminSetVideoId(c)
    \/ RefreshRead
    \/ RefreshSave
    \/ RefreshRule
    \/ \E p \in PayoutIds : AdminMilestoneApprove(p)
    \/ \E p \in PayoutIds : AdminMilestoneReject(p)

SpecCovered ==
    /\ CoveredInit /\ [][CoveredNext]_vars
    /\ SF_vars(RefreshRead) /\ SF_vars(RefreshSave) /\ SF_vars(RefreshRule)

\* The ledger side reaches the state the coverage starts from.
CoveredInitReached ==
    /\ now = 60 /\ claims = CoveredClaims /\ inflight = EmptyBag
    /\ wallets = [u \in Users |-> IF u = 1 THEN price_per_item[1] ELSE 0]
    /\ BagToSet(transactions[1]) = {Txn("task_credit", price_per_item[1], <<1, 1, 1>>,
                                        Note("claim", <<1, 1, 1>>))}
    /\ transactions[2] = EmptyBag
    /\ withdrawals = [u \in Users |-> <<>>] /\ payouts = <<>>

(***************************************************************************)
(* Review side: the review of two submitted claims, one of an offer with a *)
(* price and one of an offer whose price is 0, and the withdrawals of      *)
(* their users.                                                            *)
(***************************************************************************)
ReviewClaims ==
    [p \in Users \X Works |->
        IF p \in {<<1, 1>>, <<2, 2>>} THEN <<ClaimRow(p[1], p[2], "submitted", 60)>>
        ELSE <<>>]

ReviewInit ==
    /\ now = 0
    /\ works = [w \in Works |-> [exists |-> TRUE, total_slots |-> 1, remaining_slots |-> 0]]
    /\ items = FileItems(2)
    /\ claims = ReviewClaims
    /\ inflight = EmptyBag
    /\ wallets = [u \in Users |-> 0]
    /\ transactions = [u \in Users |-> EmptyBag]
    /\ withdrawals = [u \in Users |-> <<>>]
    /\ payouts = <<>>
    /\ min_withdraw_amount = 1

ReviewNext ==
    \/ \E c \in ClaimIds : AdminApproveClaim(c)
    \/ \E c \in ClaimIds : AdminRejectClaim(c)
    \/ \E c \in ClaimIds, a \in PayoutAmounts : WorkClaimAdminSetPayoutAmount(c, a)
    \/ \E u \in Users, a \in Amounts : WithdrawCheck(u, a)
    \/ \E r \in BagToSet(inflight) : WithdrawTxn(r)
    \/ \E r \in BagToSet(inflight) : DatabaseLocked(r)

SpecReview == ReviewInit /\ [][ReviewNext]_vars

\* The allocation side reaches the state the review side starts from.
ReviewInitReached ==
    /\ now = 0 /\ claims = ReviewClaims /\ inflight = EmptyBag
    /\ items = FileItems(2)
    /\ works = [w \in Works |-> [exists |-> TRUE, total_slots |-> 1, remaining_slots |-> 0]]

(***************************************************************************)
(* Review of claims at any point of their life: two users hold the two     *)
(* claims of an offer; the claims are submitted or time out and are swept  *)
(* while an admin approves and rejects them.                               *)
(***************************************************************************)
ApprovalClaims ==
    [p \in Users \X Works |->
        IF p[2] = 1 THEN <<ClaimRow(p[1], 1, "claimed", deadline_minutes)>> ELSE <<>>]

ApprovalInit ==
    /\ now = 0
    /\ works = [w \in Works |->
                  IF w = 1 THEN [exists |-> TRUE, total_slots |-> 2, remaining_slots |-> 0]
                  ELSE NoWork]
    /\ items = FileItems(2)
    /\ claims = ApprovalClaims
    /\ inflight = EmptyBag
    /\ wallets = [u \in Users |-> 0]
    /\ transactions = [u \in Users |-> EmptyBag]
    /\ withdrawals = [u \in Users |-> <<>>]
    /\ payouts = <<>>
    /\ min_withdraw_amount = 0

ApprovalNext ==
    \/ \E c \in ClaimIds, u \in Users : SubmitRead(c, u)
    \/ \E r \in BagToSet(inflight) : SubmitTxn(r)
    \/ \E w \in Works, t \in Times : SweepExpire(w, t)
    \/ Tick
    \/ \E c \in ClaimIds : AdminApproveClaim(c)
    \/ \E c \in ClaimIds : AdminRejectClaim(c)
    \/ \E r \in BagToSet(inflight) : DatabaseLocked(r)

SpecApproval == ApprovalInit /\ [][ApprovalNext]_vars

\* The allocation side reaches the state this review starts from.
ApprovalInitReached ==
    /\ now = 0 /\ claims = ApprovalClaims /\ inflight = EmptyBag
    /\ items = FileItems(2)
    /\ works[1] = [exists |-> TRUE, total_slots |-> 2, remaining_slots |-> 0]
    /\ ~works[2].exists

(***************************************************************************)
(* The lock of the store.  The atomic blocks of the handlers, statement by *)
(* statement, on the one lock of the sqlite3 database: a transaction       *)
(* begins without a lock (BEGIN is deferred), takes the read lock with its *)
(* first statement, the write lock with its first writing statement, and   *)
(* needs every other reader gone to commit what it wrote.  A transaction   *)
(* that holds the read lock and finds the write lock taken is refused at   *)
(* once ("database is locked"); one that waits gives up after the timeout  *)
(* of the connection.  select_for_update() is an ordinary SELECT here.     *)
(***************************************************************************)
Stmt(kind, table) == [kind |-> kind, table |-> table]

\* WalletTransaction.apply_transaction, models.py lines 161-168
block_apply_transaction ==
    <<Stmt("select_for_update", "Wallet"), Stmt("insert", "WalletTransaction"),
      Stmt("update", "Wallet")>>

\* WorkClaimCreateView.post, lines 253-283
block_allocate ==
    <<Stmt("select_for_update", "Work"), Stmt("select", "FileItem"),
      Stmt("select_for_update", "FileItem"), Stmt("update", "FileItem"),
      Stmt("update", "Work"), Stmt("insert", "WorkClaim")>>

\* WorkClaimSubmitView.post, lines 351-355
block_submit == <<Stmt("update", "WorkClaim")>>

\* WorkSweepExpireView.post, lines 373-386, with one claim to expire
block_sweepExpired ==
    <<Stmt("select_for_update", "Work"), Stmt("select_for_update", "WorkClaim"),
      Stmt("update", "FileItem"), Stmt("update", "Work"), Stmt("update", "WorkClaim")>>

\* AdminApproveClaimView.post, lines 471-490
block_approveClaim ==
    <<Stmt("select_for_update", "WorkClaim"), Stmt("update", "WorkClaim"),
      Stmt("select", "Wallet"), Stmt("select", "WalletTransaction")>>
    \o block_apply_transaction

\* AdminRejectClaimView.post, lines 504-511
block_rejectClaim ==
    <<Stmt("select_for_update", "WorkClaim"), Stmt("update", "WorkClaim")>>

\* MyWithdrawRequestView.post, lines 61-65
block_requestWithdrawal ==
    <<Stmt("insert", "WithdrawalRequest")>> \o block_apply_transaction

\* AdminWithdrawApproveView.post, lines 96-105
block_approveWithdrawal ==
    <<Stmt("update", "WithdrawalRequest")>> \o block_apply_transaction

\* AdminWithdrawRejectView.post, lines 121-130
block_rejectWithdrawal ==
    <<Stmt("update", "WithdrawalRequest")>> \o block_apply_transaction

\* AdminMilestoneApproveView.post, lines 57-85
block_approveMilestone ==
    <<Stmt("select_for_update", "MilestonePayout"), Stmt("select", "Wallet"),
      Stmt("select", "WalletTransaction")>>
    \o block_apply_transaction \o <<Stmt("update", "MilestonePayout")>>

\* CronMetricsRefreshView.get, lines 156-168
block_refresh ==
    <<Stmt("select_for_update", "MilestonePayout"), Stmt("insert", "MilestonePayout")>>

Handlers ==
    {"allocate", "submit", "sweepExpired", "approveClaim", "rejectClaim",
     "requestWithdrawal", "approveWithdrawal", "rejectWithdrawal",
     "approveMilestone", "refresh"}

block(h) ==
    CASE h = "allocate" -> block_allocate
      [] h = "submit" -> block_submit
      [] h = "sweepExpired" -> block_sweepExpired
      [] h = "approveClaim" -> block_approveClaim
      [] h = "rejectClaim" -> block_rejectClaim
      [] h = "requestWithdrawal" -> block_requestWithdrawal
      [] h = "approveWithdrawal" -> block_approveWithdrawal
      [] h = "rejectWithdrawal" -> block_rejectWithdrawal
      [] h = "approveMilestone" -> block_approveMilestone
      [] h = "refresh" -> block_refresh

\* The number of statements after which a block can end without a write:
\* sold out or no item left, nothing to expire, already decided, payout
\* already recorded.
returns_after(h) ==
    CASE h = "allocate" -> {1, 2}
      [] h = "sweepExpired" -> {2}
      [] h \in {"approveClaim", "rejectClaim", "approveMilestone", "refresh"} -> {1}
      [] OTHER -> {}

\* The statements one run of the block of h executes.
runs(h) == {block(h)} \cup {SubSeq(block(h), 1, k) : k \in returns_after(h)}

is_write(s) == s.kind \in {"update", "insert"}

\* The transactions in flight: user is the connection, work the handler, t
\* the statements of this run, row those still to run, seen the lock the
\* connection holds.
Blocks == {r \in BagToSet(inflight) : r.op = "block"}
Others(r) == Blocks \ {r}

\* No new reader is admitted once a writer waits to commit.
shared_granted(r) ==
    r.seen # "none" \/ \A o \in Others(r) : o.seen # "pending"

reserved_free(r) == \A o \in Others(r) : o.seen \notin {"reserved", "pending"}

\* A store that lets a reader wait for the write lock.
upgrade_refused_never(r) == FALSE

\* A reader that asks for the write lock another connection holds is not
\* made to wait: the statement fails with "database is locked".
upgrade_refused(r) == r.seen = "shared" /\ ~reserved_free(r)

BlockBegin(h) ==
    /\ CanLaunch
    /\ \E conn \in 1..MaxInflight, run \in runs(h) :
         /\ \A o \in Blocks : o.user # conn
         /\ inflight' = Launch(Req("block", conn, h, run, run, 0, "none"))
    /\ UNCHANGED <<allocVars, ledgerVars>>

\* The next statement of the block: it runs, or it is refused and the block
\* is rolled back, or (the action is not enabled) the connection waits.
BlockStatement(r) ==
    /\ r \in Blocks /\ r.row # <<>> /\ r.seen # "pending"
    /\ IF ~is_write(Head(r.row))
       THEN /\ shared_granted(r)
            /\ inflight' = Finish(r) (+) SetToBag({[r EXCEPT
                   !.row = Tail(r.row),
                   !.seen = IF r.seen = "none" THEN "shared" ELSE r.seen]})
       ELSE IF r.seen = "reserved" \/ reserved_free(r)
       THEN inflight' = Finish(r) (+) SetToBag({[r EXCEPT
                   !.row = Tail(r.row), !.seen = "reserved"]})
       ELSE /\ upgrade_refused(r)
            /\ inflight' = Finish(r)
    /\ UNCHANGED <<allocVars, ledgerVars>>

\* The end of the block: a reader just leaves; a writer commits when no
\* other connection reads, and until then keeps new readers out.
BlockCommit(r) ==
    /\ r \in Blocks /\ r.row = <<>>
    /\ IF r.seen \in {"none", "shared"} \/ \A o \in Others(r) : o.seen # "shared"
       THEN inflight' = Finish(r)
       ELSE /\ r.seen = "reserved"
            /\ inflight' = Finish(r) (+) SetToBag({[r EXCEPT !.seen = "pending"]})
    /\ UNCHANGED <<allocVars, ledgerVars>>

LocksInit == ReviewInit

LocksNext ==
    \/ \E h \in Handlers : BlockBegin(h)
    \/ \E r \in Blocks : BlockStatement(r)
    \/ \E r \in Blocks : BlockCommit(r)
    \/ \E r \in Blocks : DatabaseLocked(r)

SpecLocks == LocksInit /\ [][LocksNext]_vars

(***************************************************************************)
(* Properties of the ledger side.                                          *)
(***************************************************************************)
Copies(u, kind, about, id) ==
    BagSum(transactions[u],
           [x \in TxnRows(u) |->
               IF x.kind = kind /\ x.note = Note(about, id) THEN 1 ELSE 0])

\* C6: the cached balance of every wallet is the sum of the signed amounts
\* of its transactions.
C6_BalanceIsSumOfTransactions ==
    \A u \in Users :
        wallets[u] = BagSum(transactions[u], [x \in TxnRows(u) |-> x.amount])

\* C6 witness: one wallet holds a task credit, a milestone bonus, a hold, an
\* approval marker and a reversal.
C6_Witness ==
    \E u \in Users :
        {"task_credit", "milestone_bonus", "withdrawal_hold", "withdrawal", "reversal"}
            \subseteq {x.kind : x \in TxnRows(u)}

\* The number of task_credit transactions that reference a claim.
TaskCredits(c) ==
    BagSum(transactions[Claim(c).user],
           [x \in TxnRows(Claim(c).user) |->
               IF x.kind = "task_credit" /\ x.ref_claim = c THEN 1 ELSE 0])

\* C7: no claim is ever referenced by more than one task_credit transaction.
C7_OneTaskCreditPerClaim == \A c \in ClaimIds : TaskCredits(c) <= 1

\* C7 witness: a claim that was approved and credited and is now rejected,
\* so that the next approval meets its earlier credit.
C7_Witness ==
    \E c \in ClaimIds : Claim(c).review_status = "rejected" /\ TaskCredits(c) = 1

\* C8: withdrawal holds never drive a balance below zero.
C8_HoldsNeverOverdraw == \A u \in Users : wallets[u] >= 0

\* C9: a withdrawal request debits its amount with one hold, and rejecting
\* the pending request credits the same amount back with one reversal, so
\* that request followed by rejection restores the balance.
C9_RequestThenRejectRestoresBalance ==
    [][\A u \in Users :
        /\ Len(withdrawals'[u]) > Len(withdrawals[u]) =>
             LET pk == <<u, Len(withdrawals'[u])>>
                 a == withdrawals'[u][pk[2]].amount
             IN /\ wallets'[u] = wallets[u] - a
                /\ transactions'[u] = transactions[u] (+)
                     SetToBag({Txn("withdrawal_hold", -a, NoRow, Note("WR", pk))})
        /\ \A k \in DOMAIN withdrawals[u] :
             (withdrawals[u][k].status = "pending"
                 /\ withdrawals'[u][k].status = "rejected") =>
             /\ wallets'[u] = wallets[u] + withdrawals[u][k].amount
             /\ transactions'[u] = transactions[u] (+)
                  SetToBag({Txn("reversal", withdrawals[u][k].amount, NoRow,
                                Note("WR", <<u, k>>))})
      ]_vars

\* C9 witness: a wallet whose only withdrawal was requested and rejected and
\* whose balance is again the task credit it had before the request.
C9_Witness ==
    \E u \in Users :
        /\ Len(withdrawals[u]) = 1
        /\ withdrawals[u][1].status = "rejected"
        /\ Copies(u, "withdrawal_hold", "WR", <<u, 1>>) = 1
        /\ Copies(u, "reversal", "WR", <<u, 1>>) = 1
        /\ BagCardinality(transactions[u]) = 3
        /\ wallets[u] = price_per_item[1]

\* C10: a withdrawal request is decided at most once: it never has more than
\* one approval marker or reversal in its wallet.
C10_DecidedAtMostOnce ==
    \A pk \in WithdrawalIds :
        Copies(pk[1], "withdrawal", "WR", pk) + Copies(pk[1], "reversal", "WR", pk) <= 1

\* The sum of the task credits and milestone bonuses of a wallet.
Credits(u) ==
    BagSum(transactions[u],
           [x \in TxnRows(u) |->
               IF x.kind \in {"task_credit", "milestone_bonus"} THEN x.amount ELSE 0])

\* The sum of the amounts of the pending and approved requests of a wallet.
HeldOrPaid(u) ==
    SumOver(DOMAIN withdrawals[u],
            [k \in DOMAIN withdrawals[u] |->
                IF withdrawals[u][k].status \in {"pending", "approved"}
                THEN withdrawals[u][k].amount ELSE 0])

\* C35: in every wallet each withdrawal request has one hold of minus its
\* amount, each rejected request one reversal of its amount, each approved
\* request one withdrawal marker of amount 0, and the balance is the credits
\* less the amounts of the pending and approved requests.
C35_LedgerAgreesWithRequests ==
    \A u \in Users :
        /\ \A k \in DOMAIN withdrawals[u] :
              LET row == withdrawals[u][k]
                  about == Note("WR", <<u, k>>)
              IN /\ Copies(u, "withdrawal_hold", "WR", <<u, k>>) = 1
                 /\ CopiesIn(Txn("withdrawal_hold", -row.amount, NoRow, about),
                             transactions[u]) = 1
                 /\ row.status = "rejected" =>
                       /\ Copies(u, "reversal", "WR", <<u, k>>) = 1
                       /\ CopiesIn(Txn("reversal", row.amount, NoRow, about),
                                   transactions[u]) = 1
                 /\ row.status = "approved" =>
                       /\ Copies(u, "withdrawal", "WR", <<u, k>>) = 1
                       /\ CopiesIn(Txn("withdrawal", 0, NoRow, about),
                                   transactions[u]) = 1
        /\ wallets[u] = Credits(u) - HeldOrPaid(u)

\* C23: the approval of a pending withdrawal request sets it to approved,
\* leaves the balance of its wallet as it was and appends one withdrawal
\* transaction of amount 0 to it.
C23_ApprovalMovesNoFunds ==
    [][\A u \in Users : \A k \in DOMAIN withdrawals[u] :
          (withdrawals[u][k].status = "pending"
              /\ withdrawals'[u][k].status = "approved") =>
          /\ wallets' = wallets
          /\ transactions'[u] = transactions[u] (+)
               SetToBag({Txn("withdrawal", 0, NoRow, Note("WR", <<u, k>>))})
      ]_vars

\* C23 witness: a wallet that was credited the price of a task, whose one
\* withdrawal, of that amount, was approved: the balance is what the hold
\* left, and the wallet has its credit, its hold and one approval marker.
C23_Witness ==
    \E u \in Users :
        /\ Len(withdrawals[u]) = 1
        /\ withdrawals[u][1].status = "approved"
        /\ withdrawals[u][1].amount = price_per_item[1]
        /\ Copies(u, "withdrawal_hold", "WR", <<u, 1>>) = 1
        /\ Copies(u, "withdrawal", "WR", <<u, 1>>) = 1
        /\ BagCardinality(transactions[u]) = 3
        /\ wallets[u] = 0

\* C24: every withdrawal request that is accepted asks for at least the
\* configured minimum and for no more than the balance its wallet has at the
\* moment the hold is applied; a request outside these limits creates no
\* request row and appends no transaction.
C24_AcceptedWithinLimits ==
    [][\A u \in Users :
          Len(withdrawals'[u]) > Len(withdrawals[u]) =>
             /\ withdrawals'[u][Len(withdrawals'[u])].amount >= min_withdraw_amount
             /\ withdrawals'[u][Len(withdrawals'[u])].amount <= wallets[u]
      ]_vars

\* C30: wallet transactions are append-only: every step leaves each
\* transaction of every wallet in place, with its kind and its amount, so the
\* transactions of a wallet only grow.
C30_TransactionsAppendOnly ==
    [][\A u \in Users : transactions[u] \sqsubseteq transactions'[u]]_vars

\* C30 witness: a wallet that went through a credit, a hold, its reversal
\* and a second hold keeps all four transactions.
C30_Witness ==
    \E u \in Users :
        /\ BagCardinality(transactions[u]) = 4
        /\ Copies(u, "withdrawal_hold", "WR", <<u, 1>>) = 1
        /\ Copies(u, "reversal", "WR", <<u, 1>>) = 1
        /\ Copies(u, "withdrawal_hold", "WR", <<u, 2>>) = 1

(***************************************************************************)
(* Properties of the milestone side.                                       *)
(***************************************************************************)
\* C11: at most one MilestonePayout row exists for every (claim, rule) pair,
\* however many refreshes saw the threshold crossed.
C11_OnePayoutPerClaimRule ==
    \A c \in ClaimIds, q \in RuleIds :
        Cardinality({p \in PayoutIds : payouts[p].claim = c /\ payouts[p].rule = q}) <= 1

\* C11 witness: two refreshes that overlapped both saw the first rule crossed;
\* the one that read 15 views recorded it, and the one that read 25 views met
\* that row and went on to record the second rule.
C11_Witness ==
    \E c \in ClaimIds, p1 \in PayoutIds, p2 \in PayoutIds :
        /\ payouts[p1].claim = c /\ payouts[p1].rule = 1
        /\ payouts[p1].views_snapshot = 15
        /\ payouts[p2].claim = c /\ payouts[p2].rule = 2
        /\ payouts[p2].views_snapshot = 25

\* C12: no payout ever has more than one milestone_bonus transaction
\* appended on its behalf, however often it is approved and rejected.
C12_OneBonusPerPayout ==
    \A u \in Users, p \in PayoutIds :
        Copies(u, "milestone_bonus", "MilestonePayout", p) <= 1

\* C12 witness: a payout that was approved and credited and is now rejected,
\* so that the next approval meets its earlier bonus.
C12_Witness ==
    \E p \in PayoutIds :
        /\ payouts[p].status = "rejected"
        /\ payouts[p].credited_txn # NoTxn
        /\ Copies(payouts[p].claim[1], "milestone_bonus", "MilestonePayout", p) = 1

\* C13: every approved payout references the one milestone_bonus transaction
\* that was created for it, of the payout's amount, and no two payouts
\* reference the same transaction.
C13_ApprovedPayoutHasOwnBonus ==
    /\ \A p \in PayoutIds :
          payouts[p].status = "approved" =>
             /\ payouts[p].credited_txn =
                   Txn("milestone_bonus", payouts[p].amount, payouts[p].claim,
                       Note("MilestonePayout", p))
             /\ Copies(payouts[p].claim[1], "milestone_bonus", "MilestonePayout", p) = 1
    /\ \A p1 \in PayoutIds, p2 \in PayoutIds :
          (p1 # p2 /\ payouts[p1].credited_txn # NoTxn) =>
             payouts[p1].credited_txn # payouts[p2].credited_txn

\* The payouts a step creates.
NewPayouts == (DOMAIN payouts') \ (DOMAIN payouts)

\* C25: a payout is created only for a claim whose review_status is approved
\* and that has a video reference, only for an active rule whose threshold is
\* at or below the views the refresh recorded, and with status pending_review.
C25_PayoutOnlyForApprovedClaim ==
    [][\A p \in NewPayouts :
          /\ Claim(payouts'[p].claim).review_status = "approved"
          /\ Claim(payouts'[p].claim).youtube_video_id
          /\ MilestoneRules[payouts'[p].rule].active
          /\ MilestoneRules[payouts'[p].rule].threshold_views <= payouts'[p].views_snapshot
          /\ payouts'[p].status = "pending_review"
      ]_vars

\* The refresh requests in flight.
Refreshing == {r \in BagToSet(inflight) : r.op \in {"refresh", "refresh_rules"}}

\* A step of a metrics refresh: it reads its batch, saves the views of a
\* claim, or runs the transaction of a rule.
RefreshStep ==
    \/ Refreshing' # Refreshing
    \/ NewPayouts # {}
    \/ \E c \in ClaimIds : claims'[c[1], c[2]][c[3]].yt_views # Claim(c).yt_views

\* The number of milestone_bonus transactions of a wallet.
Bonuses(u) ==
    BagSum(transactions[u],
           [x \in TxnRows(u) |-> IF x.kind = "milestone_bonus" THEN 1 ELSE 0])

\* C27: no step of a metrics refresh changes a balance or appends a wallet
\* transaction, and a milestone_bonus is appended only by a step that
\* approves a payout.
C27_RefreshCreditsNothing ==
    [][/\ RefreshStep => UNCHANGED <<wallets, transactions>>
       /\ \A u \in Users :
             (Bonuses(u))' > Bonuses(u) =>
                \E p \in PayoutIds : /\ payouts[p].status # "approved"
                                     /\ payouts'[p].status = "approved"
                                     /\ payouts[p].claim[1] = u
      ]_vars

\* C27 witness: two payouts of one claim were recorded by the refresh; one
\* was approved and its bonus is in the wallet, the other is pending and the
\* wallet holds nothing for it.
C27_Witness ==
    \E p1 \in PayoutIds, p2 \in PayoutIds :
        /\ payouts[p1].claim = payouts[p2].claim
        /\ payouts[p1].status = "approved" /\ payouts[p2].status = "pending_review"
        /\ payouts[p2].credited_txn = NoTxn
        /\ Bonuses(payouts[p1].claim[1]) = 1
        /\ wallets[payouts[p1].claim[1]] = price_per_item[1] + payouts[p1].amount

\* C31: a refresh whose fetch from the metrics provider fails changes
\* nothing: the views, the next_check_at and the metrics log of every claim
\* and the payouts stay as they were, and no rule transaction is left to run.
C31_FailedFetchChangesNothing ==
    [][\A r \in Refreshing :
          MetricsRefreshFetchFailed(r) =>
             /\ UNCHANGED <<claims, payouts, wallets, transactions>>
             /\ Refreshing' = Refreshing \ {r} \/ BagIn(r, inflight')
      ]_vars

\* C31 witness: two refreshes read the approved claim; one saved 25 views,
\* logged them and recorded both payouts, the other still waits for the
\* answer of the provider, which can fail.
C31_Witness ==
    \E r \in Refreshing, c \in ClaimIds :
        /\ r.op = "refresh" /\ r.row = c
        /\ Claim(c).yt_views = 25 /\ Claim(c).metrics_log = 1
        /\ Claim(c).next_check_at # Null
        /\ Cardinality(PayoutIds) = 2

\* The refreshes in flight that saved the views of claim c and have the
\* transaction of rule q still to run.
AboutToRecord(c, q) ==
    {r \in Refreshing : /\ r.op = "refresh_rules" /\ r.row = c
                        /\ \E k \in DOMAIN r.seen : r.seen[k] = q}

\* A payout the step creates carries the views of a refresh that ran the
\* transaction of its rule, the payout_amount of the rule and pending_review.
CreatedFromRefresh(p) ==
    /\ \E r \in AboutToRecord(payouts'[p].claim, payouts'[p].rule) :
          payouts'[p].views_snapshot = r.amount
    /\ payouts'[p].amount = MilestoneRules[payouts'[p].rule].payout_amount
    /\ payouts'[p].status = "pending_review"

\* A step of a refresh leaves the payouts that exist as they are.
RefreshKeepsPayouts ==
    RefreshStep => \A p \in PayoutIds : payouts'[p] = payouts[p]

\* C28, amended: a payout records the views and the payout amount of the
\* refresh that created it, and no later refresh changes its views_snapshot,
\* amount or status.
C28_PayoutKeepsItsSnapshot ==
    [][/\ \A p \in NewPayouts : CreatedFromRefresh(p)
       /\ RefreshKeepsPayouts
      ]_vars

\* C28 witness: the payout of the first rule was recorded with 15 views and
\* approved; a later refresh recorded 25 views for the claim and created the
\* payout of the second rule, and the first payout still shows 15 views.
C28_Witness ==
    \E p1 \in PayoutIds, p2 \in PayoutIds :
        /\ payouts[p1].claim = payouts[p2].claim
        /\ payouts[p1].rule = 1 /\ payouts[p1].views_snapshot = 15
        /\ payouts[p1].amount = MilestoneRules[1].payout_amount
        /\ payouts[p1].status = "approved"
        /\ payouts[p2].rule = 2 /\ payouts[p2].views_snapshot = 25
        /\ Claim(payouts[p1].claim).yt_views = 25
        /\ Refreshing = {}

\* C28 as stated: the payout a step creates carries the views of the refresh
\* that first saw the threshold crossed: no other refresh that saw the rule
\* crossed saved other views for the claim before the one whose views the
\* payout carries; and no later refresh changes an existing payout.
C28_PayoutOfFirstCrossing ==
    [][/\ \A p \in NewPayouts :
             /\ CreatedFromRefresh(p)
             /\ ~\E r \in AboutToRecord(payouts'[p].claim, payouts'[p].rule) :
                    /\ r.amount # payouts'[p].views_snapshot
                    /\ Claim(payouts'[p].claim).yt_views = payouts'[p].views_snapshot
       /\ RefreshKeepsPayouts
      ]_vars

\* A claim that was submitted with its URL and approved and that has no
\* payout yet.
Uncovered ==
    \E c \in ClaimIds :
        /\ Claim(c).status = "submitted" /\ Claim(c).youtube_url
        /\ Claim(c).review_status = "approved"
        /\ \A p \in PayoutIds : payouts[p].claim # c

\* C26: a claim that was submitted through submit and approved gets a
\* MilestonePayout once the provider reports views at or above the threshold
\* of an active rule and the refresh runs.
C26_ApprovedClaimIsCovered == Uncovered ~> ~Uncovered

\* C14: a decided review_status is terminal: no step takes a claim from
\* approved or from rejected to another review_status.
C14_ReviewStatusTerminal ==
    [][\A c \in ClaimIds :
          Claim(c).review_status \in {"approved", "rejected"} =>
             claims'[c[1], c[2]][c[3]].review_status = Claim(c).review_status
      ]_vars

\* C15: the only status changes of a claim are claimed -> submitted,
\* submitted -> submitted and claimed -> expired; an expired claim stays
\* expired.
C15_StatusTransitions ==
    [][\A c \in ClaimIds :
          \/ claims'[c[1], c[2]][c[3]].status = Claim(c).status
          \/ <<Claim(c).status, claims'[c[1], c[2]][c[3]].status>> \in
                {<<"claimed", "submitted">>, <<"claimed", "expired">>}
      ]_vars

(***************************************************************************)
(* Properties of the review side.                                          *)
(***************************************************************************)
\* The task_credit rows of a wallet that reference claim c.
CreditsOf(c) ==
    {x \in TxnRows(Claim(c).user) : x.kind = "task_credit" /\ x.ref_claim = c}

\* The amount the approval is to credit: payout_amount when it is positive,
\* the price of the offer otherwise.
resolved_amount(c) ==
    IF Claim(c).payout_amount > 0 THEN Claim(c).payout_amount
    ELSE price_per_item[Claim(c).work]

\* C21: the approval that credits a claim credits its payout_amount when
\* that is positive and the price_per_item of its offer otherwise.
C21_ApprovalCreditsResolvedAmount ==
    [][\A c \in ClaimIds :
          (CreditsOf(c) = {} /\ (CreditsOf(c))' # {}) =>
             \A x \in (CreditsOf(c))' : x.amount = resolved_amount(c)
      ]_vars

\* C22: every task_credit of the ledger has a positive amount, and an
\* approval whose resolved amount is not positive leaves the wallet as it was.
C22_NoCreditWithoutAmount ==
    \A u \in Users : \A x \in TxnRows(u) : x.kind = "task_credit" => x.amount > 0

\* C36: a task_credit is appended only for a claim that is submitted at
\* the moment of the approval; the approval of a claim that is claimed or
\* expired credits nothing.
C36_CreditOnlyForSubmitted ==
    [][\A c \in ClaimIds :
          (CreditsOf(c) = {} /\ (CreditsOf(c))' # {}) => Claim(c).status = "submitted"
      ]_vars

\* What the task credits of a claim and the reversals that reference it add
\* to the balance of its owner.
ContributionOf(c) ==
    BagSum(transactions[Claim(c).user],
           [x \in TxnRows(Claim(c).user) |->
               IF x.kind \in {"task_credit", "reversal"} /\ x.ref_claim = c
               THEN x.amount ELSE 0])

\* C37: a rejected claim contributes nothing to the balance of its owner:
\* its task credit, if it has one, is offset by a reversal, also when the
\* claim was approved before it was rejected.
C37_RejectedClaimContributesNothing ==
    \A c \in ClaimIds :
        Claim(c).review_status = "rejected" => ContributionOf(c) = 0

(***************************************************************************)
(* Properties of the lock of the store.                                    *)
(***************************************************************************)
\* The connection can run its next statement or end its block.
Proceeds(r) == ENABLED (BlockStatement(r) \/ BlockCommit(r))

====
